---- MODULE Spec2Model ----
(***************************************************************************)
(* Model of the policy-violation checker: main.py (batch loop and          *)
(* process_url), ai_analyzer.py (response contract and analyze_with_ai),   *)
(* policy_mapping.py (get_policy_markdown) and screen_shot.py              *)
(* (take_xpath_screenshot / take_screenshot).                              *)
(*                                                                         *)
(* One batch is followed statement by statement: pc is the position of the *)
(* Streamlit script inside main(), process_url(), analyze_with_ai() and    *)
(* take_xpath_screenshot().  What the outside world does (the policy site, *)
(* the language model, the browser and the page) is chosen with \E at the  *)
(* step that asks for it.                                                  *)
(***************************************************************************)
EXTENDS Integers, Sequences, FiniteSets, TLC

(***************************************************************************)
(* Bounds of the model                                                     *)
(***************************************************************************)
\* number of lines the user types into the URL text area
MaxLines == 2
\* how many checkboxes of the catalog (its first entries) the user may tick
MaxTicked == 2
\* how many regions of a page an XPath may match
MaxMatches == 2

(***************************************************************************)
(* schema.py                                                               *)
(***************************************************************************)
POLICY_ITEMS ==
    << "Counterfeit goods", "Dangerous products or services",
       "Enabling dishonest behavior", "Inappropriate content",
       "Abusing the ad network", "Data collection and use",
       "Misrepresentation", "Ad protections for children and teens",
       "Alcohol", "Gambling and games", "Healthcare and medicines",
       "Political content", "Financial products and services",
       "Sexual content", "Legal requirements" >>

Range(s) == { s[k] : k \in 1..Len(s) }

Min(a, b) == IF a < b THEN a ELSE b

\* Python's None where a string is expected, and where a message is expected
None == "<None>"
NoMessage == << >>

\* str(e) of an exception is a sequence of message parts; f"{prefix}: {e!s}"
\* puts the prefix in front of the parts of the cause
Wrap(prefix, cause) == << prefix >> \o cause

\* the message m carries the message of the cause c (c is a suffix of m)
Carries(m, c) ==
    /\ Len(m) >= Len(c)
    /\ SubSeq(m, Len(m) - Len(c) + 1, Len(m)) = c

(***************************************************************************)
(* ai_analyzer.py: the response contract                                   *)
(***************************************************************************)
ContractFields == { "violated_policy", "reason", "location_of_violation", "xpath" }

\* a mutant of the contract: the default argument (the whole catalog) is used
CreateModelFullCatalog(policy_literals) ==
    [ literals |-> Range(POLICY_ITEMS), required |-> ContractFields ]

\* create_policy_violation_analysis_model: four required fields,
\* violated_policy a Literal over the labels passed in
create_policy_violation_analysis_model(policy_literals) ==
    [ literals |-> Range(policy_literals), required |-> ContractFields ]

\* A text the model may answer with.  json: it parses as a JSON object;
\* fields: the keys the object has; violated_policy and xpath: the values
\* of those keys (reason and location_of_violation are free text).
NotJson == [ json |-> FALSE, fields |-> {}, violated_policy |-> "", xpath |-> "" ]
EmptyText == NotJson

\* a mutant of the validation: the object is built without checking the Literal
ModelValidateNoLiteral(response_format, text) ==
    /\ text.json
    /\ response_format.required \subseteq text.fields

\* response_format.model_validate_json(text) succeeds
model_validate_json(response_format, text) ==
    /\ text.json
    /\ response_format.required \subseteq text.fields
    /\ text.violated_policy \in response_format.literals

\* the value model_validate_json returns
AnalysisOf(text) ==
    [ violated_policy |-> text.violated_policy,
      reason |-> "reason text",
      location_of_violation |-> "location text",
      xpath |-> text.xpath ]

NoAnalysis ==
    [ violated_policy |-> None, reason |-> None,
      location_of_violation |-> None, xpath |-> None ]

(***************************************************************************)
(* policy_mapping.py                                                       *)
(***************************************************************************)
\* the loop of get_policy_markdown: the keys gathered before the label at
\* position fail_at (0: no label fails) raises in requests.get,
\* convert_to_markdown or extract_necessary_text
RECURSIVE GatherPolicies(_, _, _, _)
GatherPolicies(policies, k, fail_at, output) ==
    IF k > Len(policies) \/ k = fail_at
    THEN output
    ELSE GatherPolicies(policies, k + 1, fail_at, Append(output, policies[k]))

FetchFails(policies, fail_at) == fail_at \in 1..Len(policies)

\* a mutant: no return in the finally block, the exception of the except
\* block leaves the function
GetPolicyMarkdownRaising(policies, fail_at) ==
    [ raised |-> FetchFails(policies, fail_at),
      message |-> IF FetchFails(policies, fail_at)
                  THEN Wrap("Error getting policy markdown", << "fetch failed" >>)
                  ELSE NoMessage,
      output |-> GatherPolicies(policies, 1, fail_at, << >>) ]

\* get_policy_markdown: the except block raises, the return of the finally
\* block discards that exception and returns output
get_policy_markdown(policies, fail_at) ==
    [ raised |-> FALSE,
      message |-> NoMessage,
      output |-> GatherPolicies(policies, 1, fail_at, << >>) ]

(***************************************************************************)
(* screen_shot.py: images, exceptions and their handlers                   *)
(***************************************************************************)
\* bytes of an image: of one region of the page, or of the whole page
NoBytes == [ kind |-> "none", region |-> 0 ]
FullPageBytes == [ kind |-> "full_page", region |-> 0 ]
ElementBytes(n) == [ kind |-> "element", region |-> n ]

\* a mutant of the locator: the last matching region instead of the first
LastRegion(m) == m

\* page.locator(f"xpath={xpath}").first: the region the locator addresses
\* when the XPath matches m regions
FirstRegion(m) == 1

\* element.count() of a locator narrowed by .first
LocatorCount(m) == Min(m, 1)

\* Python truthiness of a str | None argument (if xpath:)
Truthy(x) == x # None /\ x # ""

\* base64.b64encode(screenshot_bytes).decode("utf-8"), and None
NoBase64 == [ encoding |-> "none", data |-> NoBytes ]
B64Encode(bytes) == [ encoding |-> "base64", data |-> bytes ]

\* the statements of take_xpath_screenshot that may raise
InnerSites == { "locate", "element_screenshot", "page_screenshot_not_found" }
OuterSites == { "launch", "new_page", "goto", "page_screenshot_invalid",
                "page_screenshot_no_xpath", "close" }

\* a mutant: the fallback capture of the inner except block is not covered
\* by the outer try
HandlerOfUncovered(site) ==
    IF site \in InnerSites THEN "inner"
    ELSE IF site = "page_screenshot_invalid" THEN "caller" ELSE "outer"

\* the except block that catches an exception raised at a site: the inner
\* try (lines 33-42) or the outer try (lines 25-55)
HandlerOf(site) ==
    IF site \in InnerSites THEN "inner" ELSE "outer"

\* a mutant: the Playwright context is entered without "async with", so that
\* leaving the block stops nothing
AfterBlockNoContext(state) == state

\* leaving "async with async_playwright()": Playwright is stopped, and a
\* browser it still runs ends with it
AfterBlock(state) ==
    [ playwright |-> "stopped",
      browser |-> IF state.browser = "open" THEN "closed" ELSE state.browser ]

XPathWarning == "XPath is invalid or element not found. Taking full page screenshot"
ScreenshotWarning == "Screenshot error"

(***************************************************************************)
(* main.py: the form, the URL list and the records                         *)
(***************************************************************************)
UrlA == "https://a.example"
UrlB == "https://b.example"
Lines == { "   ", UrlA, "  https://b.example  " }

\* str.strip() on the lines of the model
Strip(line) ==
    CASE line = "   " -> ""
      [] line = "  https://b.example  " -> UrlB
      [] OTHER -> line

\* [url.strip() for url in url_input.split("\n") if url.strip()]
RECURSIVE ParseUrls(_)
ParseUrls(lines) ==
    IF lines = << >> THEN << >>
    ELSE IF Strip(Head(lines)) # ""
         THEN << Strip(Head(lines)) >> \o ParseUrls(Tail(lines))
         ELSE ParseUrls(Tail(lines))

\* the text areas of the model: up to MaxLines lines
UrlInputs == UNION { [ 1..n -> Lines ] : n \in 0..MaxLines }

\* the checkboxes the user may leave ticked, and the selection they give,
\* in catalog order (lines 132-141)
Tickable == { POLICY_ITEMS[k] : k \in 1..MaxTicked }
SelectedOf(ticks) == SelectSeq(POLICY_ITEMS, LAMBDA p : p \in ticks)

\* the result dictionary process_url starts with (lines 21-29)
NewResult(url) ==
    [ url |-> url, violated_policy |-> "Processing...", reason |-> << >>,
      location_of_violation |-> "", screenshot_base64 |-> NoBase64,
      xpath |-> None, error |-> NoMessage ]

NoResult == NewResult(None)

\* the except block of process_url (lines 56-59)
ProcessUrlExcept(r, e) ==
    [ r EXCEPT !.error = e, !.violated_policy = "Error",
               !.reason = Wrap("Processing error", e) ]

\* a mutant: a failed record is dropped from the list
AppendUnlessError(rs, r) ==
    IF r.violated_policy = "Error" THEN rs ELSE Append(rs, r)

\* st.session_state.results.append(result) (line 212)
AppendResult(rs, r) == Append(rs, r)

\* a mutant: a missing screenshot marks the record as failed
StoreScreenshotAsError(r, b64) ==
    IF b64.encoding # "none"
    THEN [ r EXCEPT !.screenshot_base64 = b64 ]
    ELSE [ r EXCEPT !.error = << "Failed to take screenshot" >>,
                    !.violated_policy = "Error" ]

\* lines 50-54 of process_url
StoreScreenshot(r, b64) ==
    IF b64.encoding # "none"
    THEN [ r EXCEPT !.screenshot_base64 = b64 ]
    ELSE [ r EXCEPT !.error = << "Failed to take screenshot" >> ]

\* lines 40-47 of process_url
StoreAnalysis(r, a) ==
    [ r EXCEPT !.violated_policy = a.violated_policy,
               !.reason = << a.reason >>,
               !.location_of_violation = a.location_of_violation,
               !.xpath = a.xpath ]

(***************************************************************************)
(* What the language model may answer                                      *)
(***************************************************************************)
ModelLabels == { POLICY_ITEMS[k] : k \in 1..(MaxTicked + 1) } \cup { "Not a policy" }
ModelXPaths == { "", "//div[1]" }

JsonTexts ==
    { [ json |-> TRUE, fields |-> ContractFields, violated_policy |-> v, xpath |-> x ] :
        v \in ModelLabels, x \in ModelXPaths }
    \cup { [ json |-> TRUE, fields |-> ContractFields \ { "xpath" },
             violated_policy |-> POLICY_ITEMS[1], xpath |-> "" ],
           [ json |-> TRUE, fields |-> ContractFields \ { "violated_policy" },
             violated_policy |-> "", xpath |-> "//div[1]" ] }

\* result of llm_with_tools.invoke: it raises, or result.content is an empty
\* list, a plain string, a list whose last part has no "text" key, or a list
\* whose last part has the text
Responses ==
    { [ kind |-> k, text |-> EmptyText ] :
        k \in { "transport_error", "empty_content", "string_content", "no_text_key" } }
    \cup { [ kind |-> "text", text |-> t ] : t \in JsonTexts \cup { NotJson } }

NoResponse == [ kind |-> "none", text |-> EmptyText ]

\* result.content[-1].get("text", "") (line 146): the text, or the exception
ExtractRaises(resp) == resp.kind \in { "empty_content", "string_content" }
ExtractMessage(resp) ==
    IF resp.kind = "empty_content" THEN << "list index out of range" >>
    ELSE << "'str' object has no attribute 'get'" >>
OutputText(resp) == IF resp.kind = "text" THEN resp.text ELSE EmptyText

(***************************************************************************)
(* State                                                                   *)
(***************************************************************************)
VARIABLES
    api_key,            \* the API key field of the form
    ticks,              \* the policy checkboxes that are ticked
    url_input,          \* the lines of the URL text area
    is_analyzing,       \* st.session_state.is_analyzing
    urls,               \* st.session_state.urls (<< >>: not in the session)
    selected_policies,  \* st.session_state.selected_policies
    results,            \* st.session_state.results
    pc,                 \* position of the script
    i,                  \* index of the URL the loop is at (1-based)
    result,             \* process_url: the record being built
    response_format,    \* analyze_with_ai: the contract
    policy_markdown,    \* analyze_with_ai: keys of the descriptions gathered
    fetch_fail_at,      \* the label whose fetch failed (0: none)
    llm_result,         \* analyze_with_ai: what invoke returned
    llm_calls,          \* model invocations made by the current analyze call
    analysis,           \* the value analyze_with_ai returned
    exc,                \* str(e) of the exception in flight (<< >>: none)
    cause,              \* str(e) of the exception first raised
    xpath,              \* take_xpath_screenshot: the xpath argument
    playwright,         \* "none", "started", "stopped"
    browser,            \* "none", "open", "closed"
    matches,            \* regions the XPath matched (-1: not resolved)
    thrown,             \* statements of the capture that raised
    unwinding,          \* "none", or the handler an exception travels to
    screenshot_bytes,   \* take_xpath_screenshot: the bytes to return
    warnings            \* warnings emitted by the current capture

form == << api_key, ticks, url_input >>
session == << is_analyzing, urls, selected_policies, results >>
analyzer == << response_format, policy_markdown, fetch_fail_at, llm_result,
               llm_calls, analysis, exc, cause >>
capture == << xpath, playwright, browser, matches, thrown, unwinding,
              screenshot_bytes, warnings >>
vars == << form, session, pc, i, result, analyzer, capture >>

NoContract == [ literals |-> {}, required |-> {} ]

AnalyzerIdle ==
    /\ response_format = NoContract
    /\ policy_markdown = << >>
    /\ fetch_fail_at = 0
    /\ llm_result = NoResponse
    /\ llm_calls = 0
    /\ analysis = NoAnalysis
    /\ exc = NoMessage
    /\ cause = NoMessage

CaptureIdle ==
    /\ xpath = None
    /\ playwright = "none"
    /\ browser = "none"
    /\ matches = -1
    /\ thrown = {}
    /\ unwinding = "none"
    /\ screenshot_bytes = NoBytes
    /\ warnings = {}

\* the primed copies of the two predicates above
ResetAnalyzer ==
    /\ response_format' = NoContract
    /\ policy_markdown' = << >>
    /\ fetch_fail_at' = 0
    /\ llm_result' = NoResponse
    /\ llm_calls' = 0
    /\ analysis' = NoAnalysis
    /\ exc' = NoMessage
    /\ cause' = NoMessage

ResetCapture ==
    /\ xpath' = None
    /\ playwright' = "none"
    /\ browser' = "none"
    /\ matches' = -1
    /\ thrown' = {}
    /\ unwinding' = "none"
    /\ screenshot_bytes' = NoBytes
    /\ warnings' = {}

\* the session as lines 101-106 set it, nothing in progress
SessionStart ==
    /\ is_analyzing = FALSE
    /\ urls = << >>
    /\ selected_policies = << >>
    /\ results = << >>
    /\ pc = "idle"
    /\ i = 0
    /\ result = NoResult
    /\ AnalyzerIdle
    /\ CaptureIdle

\* a text area of at most one line
OneLineInputs == { << >> } \cup { << l >> : l \in Lines }

\* one call of process_url per batch: the form holds any API key, any set
\* of ticked policies and at most one line
Init ==
    /\ api_key \in { "", "key" }
    /\ ticks \in SUBSET Tickable
    /\ url_input \in OneLineInputs
    /\ SessionStart

\* batches of several URLs: the policies are all ticked (the default of the
\* checkboxes, line 138) or all unticked
InitBatch ==
    /\ api_key \in { "", "key" }
    /\ ticks \in { {}, Tickable }
    /\ url_input \in UrlInputs
    /\ SessionStart

\* batches of several URLs checked against the first policy of the catalog
\* (every other checkbox unticked), or against none
InitFlag ==
    /\ api_key \in { "", "key" }
    /\ ticks \in { {}, { POLICY_ITEMS[1] } }
    /\ url_input \in UrlInputs
    /\ SessionStart

(***************************************************************************)
(* main(): submission and the batch loop                                   *)
(***************************************************************************)
\* every line of the text area is blank: not url_input.strip()
AllBlank(lines) == \A k \in 1..Len(lines) : Strip(lines[k]) = ""

\* the validation of lines 160-176
SubmissionValid ==
    /\ api_key # ""
    /\ SelectedOf(ticks) # << >>
    /\ ~AllBlank(url_input)
    /\ ParseUrls(url_input) # << >>

\* lines 158-187: the button is enabled only while is_analyzing is false;
\* a valid submission is saved to the session and the script reruns
Submit ==
    /\ pc = "idle"
    /\ ~is_analyzing
    /\ SubmissionValid
    /\ is_analyzing' = TRUE
    /\ urls' = ParseUrls(url_input)
    /\ selected_policies' = SelectedOf(ticks)
    /\ pc' = "rerun"
    /\ UNCHANGED << form, results, i, result, analyzer, capture >>

\* lines 190-200: the rerun enters the batch and empties the results
StartBatch ==
    /\ pc = "rerun"
    /\ is_analyzing /\ urls # << >>
    /\ results' = << >>
    /\ i' = 1
    /\ pc' = "loop"
    /\ UNCHANGED << form, is_analyzing, urls, selected_policies, result,
                    analyzer, capture >>

\* lines 202-211 and 21-29: the loop calls process_url for the next URL
ProcessUrlStart ==
    /\ pc = "loop"
    /\ i <= Len(urls)
    /\ result' = NewResult(urls[i])
    /\ pc' = "contract"
    /\ UNCHANGED << form, session, i, analyzer, capture >>

\* line 212: the record process_url returned is appended
AppendRecord ==
    /\ pc = "url_done"
    /\ results' = AppendResult(results, result)
    /\ i' = i + 1
    /\ result' = NoResult
    /\ pc' = "loop"
    /\ ResetAnalyzer
    /\ UNCHANGED << form, is_analyzing, urls, selected_policies, capture >>

\* a mutant: the flag is reset at the end of the try block instead of in
\* the finally block
FlagAfterBatchNoFinally(raised) == raised

\* st.session_state.is_analyzing after the batch block, whether its body
\* ran to the end or raised: the finally block (lines 223-225) resets it
FlagAfterBatch(raised) == FALSE

\* lines 214-227: the loop has gone through urls; urls leaves the session,
\* the flag is reset and the script reruns
FinishBatch ==
    /\ pc = "loop"
    /\ i > Len(urls)
    /\ urls' = << >>
    /\ is_analyzing' = FlagAfterBatch(FALSE)
    /\ i' = 0
    /\ pc' = "idle"
    /\ UNCHANGED << form, selected_policies, results, result, analyzer, capture >>

\* lines 203-204 and 221-227: a Streamlit call of the loop body raises (the
\* run is stopped, the front end is gone); line 219 is not reached, the
\* except block reports, the finally block resets the flag and reruns
BatchRaises ==
    /\ pc = "loop"
    /\ i <= Len(urls)
    /\ is_analyzing' = FlagAfterBatch(TRUE)
    /\ i' = 0
    /\ pc' = "idle"
    /\ UNCHANGED << form, urls, selected_policies, results, result, analyzer,
                    capture >>

(***************************************************************************)
(* analyze_with_ai                                                         *)
(***************************************************************************)
AnalysisError(c) == Wrap("AI analysis error", c)

\* the locals of analyze_with_ai end with the call
DropFrame ==
    /\ response_format' = NoContract
    /\ policy_markdown' = << >>
    /\ fetch_fail_at' = 0
    /\ llm_result' = NoResponse

\* str(e) of the pydantic error model_validate_json raises when it rejects
ValidationMessage == << "validation error" >>

\* line 93: the contract is built from the labels of this call
BuildContract ==
    /\ pc = "contract"
    /\ response_format' = create_policy_violation_analysis_model(selected_policies)
    /\ pc' = "fetch"
    /\ UNCHANGED << form, session, i, result, policy_markdown, fetch_fail_at,
                    llm_result, llm_calls, analysis, exc, cause, capture >>

\* line 94: the policy texts are fetched; the fetch of one label may fail
FetchPolicies ==
    /\ pc = "fetch"
    /\ \E f \in 0..Len(selected_policies) :
         LET r == get_policy_markdown(selected_policies, f) IN
           IF r.raised
           THEN /\ cause' = << "fetch failed" >>
                /\ exc' = AnalysisError(r.message)
                /\ pc' = "analysis_raised"
                /\ DropFrame
           ELSE /\ fetch_fail_at' = f
                /\ policy_markdown' = r.output
                /\ pc' = "invoke"
                /\ UNCHANGED << exc, cause, response_format, llm_result >>
    /\ UNCHANGED << form, session, i, result, llm_calls, analysis, capture >>

\* a mutant: a transport error of the first call is answered by calling the
\* model again
InvokeModelRetrying ==
    /\ pc = "invoke"
    /\ \E resp \in Responses :
         IF resp.kind = "transport_error" /\ llm_calls = 0
         THEN /\ pc' = "invoke"
              /\ UNCHANGED << exc, cause, response_format, policy_markdown,
                              fetch_fail_at, llm_result >>
         ELSE IF resp.kind = "transport_error"
         THEN /\ cause' = << "transport failure" >>
              /\ exc' = AnalysisError(<< "transport failure" >>)
              /\ pc' = "analysis_raised"
              /\ DropFrame
         ELSE /\ llm_result' = resp
              /\ pc' = "parse"
              /\ UNCHANGED << exc, cause, response_format, policy_markdown,
                              fetch_fail_at >>
    /\ llm_calls' = llm_calls + 1
    /\ UNCHANGED << form, session, i, result, analysis, capture >>

\* lines 95-145: the prompts are composed and the model is invoked once
InvokeModel ==
    /\ pc = "invoke"
    /\ \E resp \in Responses :
         IF resp.kind = "transport_error"
         THEN /\ cause' = << "transport failure" >>
              /\ exc' = AnalysisError(<< "transport failure" >>)
              /\ pc' = "analysis_raised"
              /\ DropFrame
         ELSE /\ llm_result' = resp
              /\ pc' = "parse"
              /\ UNCHANGED << exc, cause, response_format, policy_markdown,
                              fetch_fail_at >>
    /\ llm_calls' = llm_calls + 1
    /\ UNCHANGED << form, session, i, result, analysis, capture >>

\* lines 146-153: the last content part is read and validated
ParseResponse ==
    /\ pc = "parse"
    /\ IF ExtractRaises(llm_result)
       THEN /\ cause' = ExtractMessage(llm_result)
            /\ exc' = AnalysisError(ExtractMessage(llm_result))
            /\ pc' = "analysis_raised"
            /\ DropFrame
            /\ UNCHANGED analysis
       ELSE IF model_validate_json(response_format, OutputText(llm_result))
       THEN /\ analysis' = AnalysisOf(OutputText(llm_result))
            /\ pc' = "analysis_returned"
            /\ UNCHANGED << exc, cause, response_format, policy_markdown,
                            fetch_fail_at, llm_result >>
       ELSE /\ cause' = ValidationMessage
            /\ exc' = AnalysisError(Wrap("Error parsing response", ValidationMessage))
            /\ pc' = "analysis_raised"
            /\ DropFrame
            /\ UNCHANGED analysis
    /\ UNCHANGED << form, session, i, result, llm_calls, capture >>

(***************************************************************************)
(* process_url around the two calls                                        *)
(***************************************************************************)
\* lines 40-50: the analysis is copied into the record and take_screenshot
\* is called with its xpath
RecordAnalysis ==
    /\ pc = "analysis_returned"
    /\ result' = StoreAnalysis(result, analysis)
    /\ xpath' = StoreAnalysis(result, analysis).xpath
    /\ pc' = "launch"
    /\ DropFrame
    /\ UNCHANGED << form, session, i, llm_calls, analysis, exc, cause,
                    playwright, browser, matches, thrown, unwinding,
                    screenshot_bytes, warnings >>

\* a mutant: the screenshot is taken after the except block as well, with
\* the xpath the record holds
CatchThenCapture ==
    /\ pc \in { "analysis_raised", "capture_raised" }
    /\ result' = ProcessUrlExcept(result, exc)
    /\ pc' = IF pc = "analysis_raised" THEN "launch" ELSE "url_done"
    /\ UNCHANGED << form, session, i, analyzer, capture >>

\* lines 56-61: an exception of either call ends in a failed record
CatchInProcessUrl ==
    /\ pc \in { "analysis_raised", "capture_raised" }
    /\ result' = ProcessUrlExcept(result, exc)
    /\ pc' = "url_done"
    /\ ResetCapture
    /\ UNCHANGED << form, session, i, analyzer >>

\* screen_shot.py lines 94-97 and main.py lines 50-54: the bytes are
\* encoded and stored, or their absence noted; the capture is over
RecordScreenshot ==
    /\ pc = "capture_returned"
    /\ result' = StoreScreenshot(result,
                     IF screenshot_bytes # NoBytes
                     THEN B64Encode(screenshot_bytes) ELSE NoBase64)
    /\ pc' = "url_done"
    /\ ResetCapture
    /\ UNCHANGED << form, session, i, analyzer >>

(***************************************************************************)
(* take_xpath_screenshot                                                   *)
(***************************************************************************)
\* an exception raised at a site: the inner except block (lines 43-49) warns
\* and goes on to its own full-page capture; any other exception leaves the
\* "async with" block on its way to its handler
Raise(site) ==
    /\ thrown' = thrown \cup { site }
    /\ IF HandlerOf(site) = "inner"
       THEN /\ warnings' = warnings \cup { XPathWarning }
            /\ pc' = "page_screenshot_invalid"
            /\ UNCHANGED unwinding
       ELSE /\ unwinding' = HandlerOf(site)
            /\ pc' = "exit_block"
            /\ UNCHANGED warnings

\* lines 26-27: Playwright is started and the browser launched
Launch ==
    /\ pc = "launch"
    /\ playwright' = "started"
    /\ \/ /\ browser' = "open"
          /\ pc' = "new_page"
          /\ UNCHANGED << thrown, unwinding, warnings >>
       \/ /\ Raise("launch")
          /\ UNCHANGED browser
    /\ UNCHANGED << form, session, i, result, analyzer, xpath, matches,
                    screenshot_bytes >>

\* line 28
NewPage ==
    /\ pc = "new_page"
    /\ \/ /\ pc' = "goto"
          /\ UNCHANGED << thrown, unwinding, warnings >>
       \/ Raise("new_page")
    /\ UNCHANGED << form, session, i, result, analyzer, xpath, playwright,
                    browser, matches, screenshot_bytes >>

\* lines 29-32: navigation, then the test of the xpath argument
Goto ==
    /\ pc = "goto"
    /\ \/ /\ pc' = IF Truthy(xpath) THEN "locate" ELSE "page_screenshot_no_xpath"
          /\ UNCHANGED << thrown, unwinding, warnings >>
       \/ Raise("goto")
    /\ UNCHANGED << form, session, i, result, analyzer, xpath, playwright,
                    browser, matches, screenshot_bytes >>

\* lines 35-37: the locator is built and counted; the count may raise
Locate ==
    /\ pc = "locate"
    /\ \/ \E m \in 0..MaxMatches :
            /\ matches' = m
            /\ pc' = IF LocatorCount(m) > 0
                     THEN "element_screenshot" ELSE "page_screenshot_not_found"
            /\ UNCHANGED << thrown, unwinding, warnings >>
       \/ /\ Raise("locate")
          /\ UNCHANGED matches
    /\ UNCHANGED << form, session, i, result, analyzer, xpath, playwright,
                    browser, screenshot_bytes >>

\* line 39: the element is captured
ElementScreenshot ==
    /\ pc = "element_screenshot"
    /\ \/ /\ screenshot_bytes' = ElementBytes(FirstRegion(matches))
          /\ pc' = "close"
          /\ UNCHANGED << thrown, unwinding, warnings >>
       \/ /\ Raise("element_screenshot")
          /\ UNCHANGED screenshot_bytes
    /\ UNCHANGED << form, session, i, result, analyzer, xpath, playwright,
                    browser, matches >>

\* page.screenshot(full_page=True) at one of its three places
PageScreenshotAt(site) ==
    /\ pc = site
    /\ \/ /\ screenshot_bytes' = FullPageBytes
          /\ pc' = "close"
          /\ UNCHANGED << thrown, unwinding, warnings >>
       \/ /\ Raise(site)
          /\ UNCHANGED screenshot_bytes
    /\ UNCHANGED << form, session, i, result, analyzer, xpath, playwright,
                    browser, matches >>

\* line 42: no element matched
PageScreenshotNotFound == PageScreenshotAt("page_screenshot_not_found")

\* line 49: inside the inner except block
PageScreenshotInvalid == PageScreenshotAt("page_screenshot_invalid")

\* line 52: no xpath was given
PageScreenshotNoXPath == PageScreenshotAt("page_screenshot_no_xpath")

\* line 54
CloseBrowser ==
    /\ pc = "close"
    /\ \/ /\ browser' = "closed"
          /\ pc' = "exit_block"
          /\ UNCHANGED << thrown, unwinding, warnings >>
       \/ /\ Raise("close")
          /\ UNCHANGED browser
    /\ UNCHANGED << form, session, i, result, analyzer, xpath, playwright,
                    matches, screenshot_bytes >>

\* the "async with" block is left (by line 55 or by an exception), then
\* line 55 returns the bytes, or the outer except block (lines 56-58) warns
\* and returns None
ExitBlock ==
    /\ pc = "exit_block"
    /\ playwright' = AfterBlock([ playwright |-> playwright, browser |-> browser ]).playwright
    /\ browser' = AfterBlock([ playwright |-> playwright, browser |-> browser ]).browser
    /\ unwinding' = "none"
    /\ CASE unwinding = "none" ->
              /\ pc' = "capture_returned"
              /\ UNCHANGED << screenshot_bytes, warnings, exc >>
         [] unwinding = "outer" ->
              /\ warnings' = warnings \cup { ScreenshotWarning }
              /\ screenshot_bytes' = NoBytes
              /\ pc' = "capture_returned"
              /\ UNCHANGED exc
         [] OTHER ->
              /\ exc' = << "screenshot failure" >>
              /\ pc' = "capture_raised"
              /\ UNCHANGED << screenshot_bytes, warnings >>
    /\ UNCHANGED << form, session, i, result, response_format, policy_markdown,
                    fetch_fail_at, llm_result, llm_calls, analysis, cause,
                    xpath, matches, thrown >>

(***************************************************************************)
(* Specification                                                           *)
(***************************************************************************)
Next ==
    \/ Submit
    \/ StartBatch
    \/ ProcessUrlStart
    \/ BuildContract
    \/ FetchPolicies
    \/ InvokeModel
    \/ ParseResponse
    \/ RecordAnalysis
    \/ CatchInProcessUrl
    \/ Launch
    \/ NewPage
    \/ Goto
    \/ Locate
    \/ ElementScreenshot
    \/ PageScreenshotNotFound
    \/ PageScreenshotInvalid
    \/ PageScreenshotNoXPath
    \/ CloseBrowser
    \/ ExitBlock
    \/ RecordScreenshot
    \/ AppendRecord
    \/ FinishBatch
    \/ BatchRaises

\* the steps the script takes by itself; Submit is the user's
Run ==
    \/ StartBatch
    \/ ProcessUrlStart
    \/ BuildContract
    \/ FetchPolicies
    \/ InvokeModel
    \/ ParseResponse
    \/ RecordAnalysis
    \/ CatchInProcessUrl
    \/ Launch
    \/ NewPage
    \/ Goto
    \/ Locate
    \/ ElementScreenshot
    \/ PageScreenshotNotFound
    \/ PageScreenshotInvalid
    \/ PageScreenshotNoXPath
    \/ CloseBrowser
    \/ ExitBlock
    \/ RecordScreenshot
    \/ AppendRecord
    \/ FinishBatch
    \/ BatchRaises

\* single analyses and captures, over every selection of policies
Spec == Init /\ [][Next]_vars

\* batches of up to MaxLines lines
SpecBatch == InitBatch /\ [][Next]_vars

\* batches of up to MaxLines lines on one policy, whose script keeps
\* running: every call it makes returns or raises, and the statement after
\* it is executed
SpecFlag == InitFlag /\ [][Next]_vars /\ WF_vars(Run)

(***************************************************************************)
(* Properties                                                              *)
(***************************************************************************)
\* the labels of the current call, as a set
Labels == Range(selected_policies)

\* the JSON documents with every field of the contract
CompleteTexts == { t \in JsonTexts : ContractFields \subseteq t.fields }

\* analyze_with_ai is past line 93 and has not returned or raised
ContractBuilt == pc \in { "fetch", "invoke", "parse", "analysis_returned" }

\* C1: once the contract of a call is built, it accepts a complete document
\* exactly when its violated_policy is one of the labels of that call; labels
\* of the catalog outside the selection and labels outside the catalog are
\* rejected, and the vocabulary is the selection itself.
C1_ContractVocabulary ==
    ContractBuilt =>
        /\ response_format.literals = Labels
        /\ \A t \in CompleteTexts :
             model_validate_json(response_format, t) <=> t.violated_policy \in Labels
        /\ \A v \in Range(POLICY_ITEMS) \ Labels :
             \A t \in CompleteTexts :
               t.violated_policy = v => ~model_validate_json(response_format, t)

\* the contract of a selection smaller than the catalog is about to judge a
\* document that names a catalog label outside the selection
C1_Witness ==
    /\ pc = "parse"
    /\ llm_result.kind = "text"
    /\ llm_result.text \in CompleteTexts
    /\ llm_result.text.violated_policy \in Range(POLICY_ITEMS) \ Labels

\* the answer of the model is a complete document naming a label of the call
ValidAnswer(resp) ==
    /\ resp.kind = "text"
    /\ resp.text.json
    /\ ContractFields \subseteq resp.text.fields
    /\ resp.text.violated_policy \in Labels

\* C2: a value analyze_with_ai returns names a label of the same call and
\* comes from a valid answer; when the call raises, no value is returned.
C2_ReturnedLabelInSelection ==
    /\ pc = "analysis_returned" =>
         /\ analysis.violated_policy \in Labels
         /\ ValidAnswer(llm_result)
         /\ analysis = AnalysisOf(llm_result.text)
    /\ pc = "analysis_raised" =>
         /\ analysis = NoAnalysis
         /\ exc # NoMessage

\* a value is returned although the catalog has labels outside the selection
C2_Witness ==
    /\ pc = "analysis_returned"
    /\ Labels # Tickable
    /\ analysis.violated_policy \in Labels

\* C3: every failure inside analyze_with_ai, a failed policy-text fetch
\* included, ends in one analysis error that carries the message of the
\* cause; no value is returned after a failure.
C3_EveryFailureRaises ==
    /\ pc = "analysis_returned" => fetch_fail_at = 0
    /\ pc = "analysis_raised" =>
         /\ Head(exc) = "AI analysis error"
         /\ Carries(exc, cause)

\* the browser was launched, a page opened and the URL loaded
Rendered == thrown \cap { "launch", "new_page", "goto" } = {}

\* C4 as stated: the outcome depends only on whether the page renders and on
\* what the anchor resolves to.
C4_OutcomeByAnchorOnly ==
    pc = "capture_returned" =>
        /\ (Rendered /\ Truthy(xpath) /\ matches >= 1)
             => screenshot_bytes = ElementBytes(1)
        /\ (Rendered /\ Truthy(xpath) /\ matches = 0)
             => screenshot_bytes = FullPageBytes
        /\ (Rendered /\ ~Truthy(xpath)) => screenshot_bytes = FullPageBytes
        /\ ~Rendered => screenshot_bytes = NoBytes

\* a statement guarded by the outer try only has raised
OuterFailed == thrown \cap OuterSites # {}

\* C4 amended: the first matching region when nothing raises; the full page
\* when the anchor matches nothing, when resolving or capturing the region
\* raises, or when the anchor is absent or empty; absence when the launch,
\* the navigation, the last full-page capture or the closing raises.
C4_OutcomeOfCapture ==
    pc = "capture_returned" =>
        /\ OuterFailed => screenshot_bytes = NoBytes
        /\ (Truthy(xpath) /\ matches >= 1 /\ thrown = {})
             => screenshot_bytes = ElementBytes(1)
        /\ (~OuterFailed /\ Truthy(xpath)
              /\ (matches = 0 \/ thrown \cap InnerSites # {}))
             => screenshot_bytes = FullPageBytes
        /\ (~OuterFailed /\ ~Truthy(xpath)) => screenshot_bytes = FullPageBytes
        /\ ~Rendered => screenshot_bytes = NoBytes

\* the anchor matched several regions and the image of the first is returned
C4_Witness ==
    /\ pc = "capture_returned"
    /\ matches = MaxMatches
    /\ thrown = {}
    /\ screenshot_bytes = ElementBytes(1)

\* C5: no exception leaves take_xpath_screenshot: whatever statement raises,
\* the capture returns an image or absence, and a record whose analysis
\* succeeded is never turned into a failed record by the capture.
C5_CaptureNeverRaises ==
    /\ pc # "capture_raised"
    /\ unwinding # "caller"
    /\ pc = "capture_returned" =>
         screenshot_bytes \in { NoBytes, FullPageBytes, ElementBytes(1) }
    /\ (pc = "url_done" /\ analysis # NoAnalysis) =>
         /\ result.violated_policy # "Error"
         /\ result.screenshot_base64 \in
              { NoBase64, B64Encode(FullPageBytes), B64Encode(ElementBytes(1)) }

\* the full-page capture failed while acting as the fallback, and the capture
\* returned absence
C5_Witness ==
    /\ pc = "capture_returned"
    /\ "page_screenshot_invalid" \in thrown
    /\ thrown \cap InnerSites # {}
    /\ screenshot_bytes = NoBytes

\* the positions inside the "async with" block
InsideBlock ==
    { "launch", "new_page", "goto", "locate", "element_screenshot",
      "page_screenshot_not_found", "page_screenshot_invalid",
      "page_screenshot_no_xpath", "close", "exit_block" }

\* C6: a browser is open, and Playwright running, only inside the capture
\* that started them: once the capture has returned nothing is left open.
C6_SessionReleased ==
    pc \notin InsideBlock =>
        /\ browser # "open"
        /\ playwright # "started"

\* the navigation failed, line 54 was skipped, and the capture returned with
\* the browser closed
C6_Witness ==
    /\ pc = "capture_returned"
    /\ "goto" \in thrown
    /\ browser = "closed"
    /\ playwright = "stopped"

\* C7: a capture with an anchor that returns the full page because the
\* anchor matched nothing or its resolution raised has emitted the warning
\* about the anchor.
C7_FallbackWarns ==
    ( /\ pc = "capture_returned"
      /\ Truthy(xpath)
      /\ screenshot_bytes = FullPageBytes
      /\ (matches = 0 \/ "locate" \in thrown) )
    => XPathWarning \in warnings

\* the loop has gone through the URLs of the batch
LoopEnded == pc = "loop" /\ i > Len(urls)

\* C8: the records follow the URLs in order, one per URL processed so far;
\* an analysis that raises gives a record marked "Error" that keeps the
\* message; when the loop ends there is one record per URL submitted.
C8_OneRecordPerUrl ==
    /\ pc \notin { "idle", "rerun" } =>
         /\ Len(results) = i - 1
         /\ Len(results) <= Len(urls)
         /\ \A j \in 1..Len(results) : results[j].url = urls[j]
    /\ (pc = "url_done" /\ analysis = NoAnalysis) =>
         /\ result.violated_policy = "Error"
         /\ result.error = exc
         /\ exc # NoMessage
    /\ LoopEnded =>
         /\ Len(results) = Len(urls)
         /\ urls = ParseUrls(url_input)
    /\ (pc = "idle" /\ urls = << >> /\ results # << >>) =>
         /\ Len(results) = Len(ParseUrls(url_input))
         /\ \A j \in 1..Len(results) : results[j].url = ParseUrls(url_input)[j]

\* the analysis of the first URL raised and the second URL was analysed
C8_Witness ==
    /\ LoopEnded
    /\ Len(results) = 2
    /\ results[1].violated_policy = "Error"
    /\ results[1].error # NoMessage
    /\ results[2].violated_policy \in Labels

ScreenshotMissing == << "Failed to take screenshot" >>

\* C9: when the analysis succeeded and the capture gave nothing, the record
\* has no image, its error says the screenshot failed, and its analysis
\* fields are those the analyzer returned; such a record is stored like any
\* other and the loop goes on.
C9_RenderUnavailableKeepsAnalysis ==
    /\ (pc = "url_done" /\ analysis # NoAnalysis
          /\ result.screenshot_base64 = NoBase64) =>
         /\ result.error = ScreenshotMissing
         /\ result.violated_policy = analysis.violated_policy
         /\ result.reason = << analysis.reason >>
         /\ result.location_of_violation = analysis.location_of_violation
         /\ result.xpath = analysis.xpath
    /\ \A j \in 1..Len(results) :
         results[j].error = ScreenshotMissing =>
           /\ results[j].screenshot_base64 = NoBase64
           /\ results[j].violated_policy # "Error"
           /\ results[j].violated_policy \in Range(POLICY_ITEMS)
    /\ (pc = "loop" /\ i <= Len(urls) /\ i > 1
          /\ results[i - 1].error = ScreenshotMissing) => ENABLED ProcessUrlStart

\* the page of the first URL could not be rendered and the second URL was
\* processed after it
C9_Witness ==
    /\ LoopEnded
    /\ Len(results) = 2
    /\ results[1].error = ScreenshotMissing
    /\ results[1].violated_policy \in Labels
    /\ results[1].screenshot_base64 = NoBase64

\* C10: get_policy_markdown does not raise: after it the keys gathered are
\* the labels before the first failing one, no analysis error comes from the
\* policy fetch, and the model is called whether or not the fetch failed.
C10_PartialPolicyText ==
    /\ pc \in { "invoke", "parse", "analysis_returned" } =>
         /\ fetch_fail_at \in 0..Len(selected_policies)
         /\ policy_markdown =
              SubSeq(selected_policies, 1,
                     IF fetch_fail_at = 0 THEN Len(selected_policies)
                     ELSE fetch_fail_at - 1)
    /\ pc \in { "parse", "analysis_returned" } => llm_calls = 1
    /\ pc = "analysis_raised" =>
         /\ cause # << "fetch failed" >>
         /\ \A k \in 1..Len(exc) : exc[k] # "Error getting policy markdown"
         /\ llm_calls = 1

\* the fetch of the second label failed, one description was gathered and
\* the model was called all the same
C10_Witness ==
    /\ pc = "parse"
    /\ fetch_fail_at = 2
    /\ Len(policy_markdown) = 1
    /\ llm_calls = 1

\* C11: an analyze call invokes the model exactly once: no invocation before
\* line 143, one from there on, whether the call returns, the invocation
\* raises or the parsing of its output raises; never a second one.
C11_OneModelCall ==
    /\ llm_calls \in { 0, 1 }
    /\ pc \in { "contract", "fetch", "invoke" } => llm_calls = 0
    /\ pc \in { "parse", "analysis_returned", "analysis_raised" } => llm_calls = 1
    /\ pc = "url_done" => llm_calls = 1

\* the parsing of the model's output failed after a single invocation
C11_Witness ==
    /\ pc = "analysis_raised"
    /\ cause = ValidationMessage
    /\ llm_calls = 1

\* what the flag guarantees in every state: it is true exactly while the
\* script is between an accepted submission and the end of its batch, and a
\* batch runs on a key, a selection and a URL list that are not empty
FlagState ==
    /\ is_analyzing <=> pc # "idle"
    /\ is_analyzing =>
         /\ api_key # ""
         /\ selected_policies # << >>
         /\ urls # << >>
         /\ ~ENABLED Submit

\* what a step may do to the flag: set it by a valid submission made while it
\* is false, keep it together with the submission being processed, or reset
\* it where the loop ends or raises
FlagStep ==
    /\ (~is_analyzing /\ is_analyzing') =>
         /\ api_key # "" /\ SelectedOf(ticks) # << >> /\ ParseUrls(url_input) # << >>
         /\ urls' = ParseUrls(url_input)
         /\ selected_policies' = SelectedOf(ticks)
    /\ (is_analyzing /\ is_analyzing') => UNCHANGED << urls, selected_policies >>
    /\ (is_analyzing /\ ~is_analyzing') => pc = "loop"

\* C12: the flag is true exactly from an accepted submission to the end of
\* the batch; only a submission with a key, a selection and a URL list made
\* while the flag is false is accepted; no submission is accepted while it is
\* true; and once true it is reset, whether the batch finishes or raises.
C12_FlagLifecycle ==
    /\ []FlagState
    /\ [][FlagStep]_vars
    /\ (is_analyzing ~> ~is_analyzing)

\* the body of a batch raised after its first URL: the flag is reset although
\* the batch did not finish (its URLs are still in the session)
C12_Witness ==
    /\ pc = "idle"
    /\ ~is_analyzing
    /\ urls # << >>
    /\ Len(results) = 1

\* take_screenshot has been called and its record is not yet stored
CaptureStarted == pc \in InsideBlock \cup { "capture_returned", "capture_raised" }

\* C13: a capture runs only for a URL whose analysis returned, with the xpath
\* of that analysis and for the URL the loop is at; when the analysis raises,
\* Playwright is never started for that URL and the record keeps no image and
\* no xpath.
C13_CaptureAfterAnalysis ==
    /\ CaptureStarted =>
         /\ analysis # NoAnalysis
         /\ analysis.violated_policy \in Labels
         /\ xpath = analysis.xpath
         /\ result.xpath = analysis.xpath
         /\ result.url = urls[i]
    /\ (playwright # "none" \/ browser # "none") => CaptureStarted
    /\ pc = "analysis_raised" =>
         /\ playwright = "none"
         /\ browser = "none"
    /\ (pc = "url_done" /\ analysis = NoAnalysis) =>
         /\ result.screenshot_base64 = NoBase64
         /\ result.xpath = None
         /\ playwright = "none"
         /\ browser = "none"

\* the analysis raised and the record was finished without a capture
C13_Witness ==
    /\ pc = "url_done"
    /\ analysis = NoAnalysis
    /\ result.violated_policy = "Error"
    /\ result.xpath = None
    /\ result.screenshot_base64 = NoBase64
    /\ playwright = "none"

====
